---------------------------- MODULE Spec2Model ----------------------------
(***************************************************************************)
(* Model of the Java compile-and-run HTTP service (src/index.js).          *)
(*                                                                         *)
(* JavaScript strings are TLA+ strings; one element of a string stands for *)
(* one UTF-16 code unit.  The pictographs of the fixed messages are        *)
(* written with ASCII stand-ins of the same length ("X" for U+274C, "T^"   *)
(* for U+23F1 U+FE0F).                                                     *)
(***************************************************************************)
EXTENDS Integers, Sequences, FiniteSets, TLC

(***************************************************************************)
(* Bounds of the model.                                                    *)
(***************************************************************************)
\* number of request identities
NumReqs == 2
\* longest request `input` string that is enumerated
MaxInputLen == 3
\* most characters one process prints, stdout and stderr together
MaxPrinted == 2
\* output cap; index.js:15 sets 30000, scaled down so that captured output
\* can exceed it
MAX_OUT == 1
\* most type declarations in one enumerated source blob
MaxDecls == 2

Reqs == 1..NumReqs

(***************************************************************************)
(* JavaScript values of the request body: a string or a non-string.        *)
(***************************************************************************)
Str(s) == [t |-> "string", v |-> s]
Undefined == [t |-> "undefined", v |-> ""]
Num(s) == [t |-> "number", v |-> s]

\* x || d for a string default d
OrStr(x, d) == IF (x.t = "string" /\ x.v /= "") \/ x.t = "number" THEN x ELSE Str(d)

\* String(x)
String(x) == IF x.t = "undefined" THEN "undefined" ELSE x.v

Min(a, b) == IF a <= b THEN a ELSE b

Char(s, i) == SubSeq(s, i, i)

From(s, i) == SubSeq(s, i, Len(s))

RECURSIVE Strs(_, _)
Strs(cs, n) ==
  IF n = 0 THEN {""}
  ELSE Strs(cs, n - 1) \cup {s \o c : s \in Strs(cs, n - 1), c \in cs}

(***************************************************************************)
(* Character classes of the regular expressions and of trim().             *)
(***************************************************************************)
WhiteSpace == {" ", "\t", "\n", "\r", "\f"}

Letters ==
  {"a","b","c","d","e","f","g","h","i","j","k","l","m","n","o","p","q","r",
   "s","t","u","v","w","x","y","z","A","B","C","D","E","F","G","H","I","J",
   "K","L","M","N","O","P","Q","R","S","T","U","V","W","X","Y","Z"}

Digits == {"0","1","2","3","4","5","6","7","8","9"}

IdentStart == Letters \cup {"_"}

WordChars == Letters \cup Digits \cup {"_"}

(***************************************************************************)
(* String helpers of the JavaScript library.                               *)
(***************************************************************************)
RECURSIVE replaceCRLF(_)
replaceCRLF(s) ==
  IF Len(s) = 0 THEN ""
  ELSE IF Len(s) >= 2 /\ SubSeq(s, 1, 2) = "\r\n"
       THEN "\n" \o replaceCRLF(From(s, 3))
       ELSE Char(s, 1) \o replaceCRLF(From(s, 2))

RECURSIVE trimStart(_)
trimStart(s) ==
  IF Len(s) > 0 /\ Char(s, 1) \in WhiteSpace THEN trimStart(From(s, 2)) ELSE s

RECURSIVE trimEnd(_)
trimEnd(s) ==
  IF Len(s) > 0 /\ Char(s, Len(s)) \in WhiteSpace
  THEN trimEnd(SubSeq(s, 1, Len(s) - 1)) ELSE s

trim(s) == trimEnd(trimStart(s))

startsWithAt(s, i, t) == i + Len(t) - 1 <= Len(s) /\ SubSeq(s, i, i + Len(t) - 1) = t

endsWith_always(s, t) == TRUE

endsWith(s, t) == Len(t) <= Len(s) /\ SubSeq(s, Len(s) - Len(t) + 1, Len(s)) = t

\* index of the first character at or after i that is not in cls
RECURSIVE skipClass(_, _, _)
skipClass(s, i, cls) ==
  IF i <= Len(s) /\ Char(s, i) \in cls THEN skipClass(s, i + 1, cls) ELSE i

(***************************************************************************)
(* index.js:17-19                                                          *)
(***************************************************************************)
normalize(x) == replaceCRLF(IF x.t = "string" THEN x.v ELSE "")

(***************************************************************************)
(* index.js:21-24                                                          *)
(***************************************************************************)
TruncationMarker == "\n...output truncated"

truncate_off_by_one(s) ==
  IF s = "" THEN ""
  ELSE IF Len(s) < MAX_OUT THEN s ELSE SubSeq(s, 1, MAX_OUT) \o TruncationMarker

truncate(s) ==
  IF s = "" THEN ""
  ELSE IF Len(s) <= MAX_OUT THEN s ELSE SubSeq(s, 1, MAX_OUT) \o TruncationMarker

(***************************************************************************)
(* index.js:26-32.  classNameAt is a match, starting at index i, of the    *)
(* pattern "class", white space, identifier; publicClassNameAt of the      *)
(* pattern "public", white space, "class", white space, identifier.  Both  *)
(* give the captured identifier, or "" when there is no match at i.        *)
(***************************************************************************)
classNameAt(s, i) ==
  IF ~startsWithAt(s, i, "class") THEN ""
  ELSE LET j == skipClass(s, i + 5, WhiteSpace)
       IN IF j = i + 5 \/ j > Len(s) \/ Char(s, j) \notin IdentStart THEN ""
          ELSE SubSeq(s, j, skipClass(s, j, WordChars) - 1)

publicClassNameAt(s, i) ==
  IF ~startsWithAt(s, i, "public") THEN ""
  ELSE LET j == skipClass(s, i + 6, WhiteSpace)
       IN IF j = i + 6 THEN "" ELSE classNameAt(s, j)

RECURSIVE firstPublicClass(_, _)
firstPublicClass(s, i) ==
  IF i > Len(s) THEN ""
  ELSE LET m == publicClassNameAt(s, i)
       IN IF m /= "" THEN m ELSE firstPublicClass(s, i + 1)

RECURSIVE firstClass(_, _)
firstClass(s, i) ==
  IF i > Len(s) THEN ""
  ELSE LET m == classNameAt(s, i)
       IN IF m /= "" THEN m ELSE firstClass(s, i + 1)

\* the detected name, "" standing for null
detectMainClass(code) ==
  LET m == firstPublicClass(code, 1)
  IN IF m /= "" THEN m ELSE firstClass(code, 1)

(***************************************************************************)
(* File system: a path is the sequence of its segments below the root; the *)
(* state is the set of directories and the set of files with contents.     *)
(***************************************************************************)
\* index of the first "/" of s at or after i, Len(s) + 1 when there is none
RECURSIVE indexOfSep(_, _)
indexOfSep(s, i) ==
  IF i > Len(s) \/ Char(s, i) = "/" THEN i ELSE indexOfSep(s, i + 1)

RECURSIVE splitPath(_)
splitPath(s) ==
  LET k == indexOfSep(s, 1)
  IN IF k > Len(s) THEN <<s>>
     ELSE <<SubSeq(s, 1, k - 1)>> \o splitPath(From(s, k + 1))

RECURSIVE resolveSegs(_, _)
resolveSegs(base, segs) ==
  IF segs = <<>> THEN base
  ELSE IF Head(segs) \in {"", "."} THEN resolveSegs(base, Tail(segs))
  ELSE IF Head(segs) = ".."
       THEN resolveSegs(IF base = <<>> THEN base ELSE SubSeq(base, 1, Len(base) - 1),
                        Tail(segs))
  ELSE resolveSegs(Append(base, Head(segs)), Tail(segs))

\* path.join(dir, name) for an absolute dir
pathJoin(dir, name) == resolveSegs(dir, splitPath(name))

\* path.dirname of an absolute path
dirname(p) == IF p = <<>> THEN p ELSE SubSeq(p, 1, Len(p) - 1)

isPrefix(d, p) == Len(d) <= Len(p) /\ SubSeq(p, 1, Len(d)) = d

prefixes(p) == {SubSeq(p, 1, k) : k \in 0..Len(p)}

\* os.tmpdir()
tmpdir == <<"tmp">>

(***************************************************************************)
(* index.js:140-141: uuid() is the n-th identifier drawn; identifiers do   *)
(* not repeat.                                                             *)
(***************************************************************************)
uuid_fixed(n) == "0"

uuid(n) == ToString(n)

workDirOf(n) == pathJoin(tmpdir, "java-run-" \o uuid(n))

(***************************************************************************)
(* The fixed result strings of index.js.                                   *)
(***************************************************************************)
MsgNoJava == "X No .java files found."
MsgCompileTimeout == "T^ Compile time limit exceeded."
MsgCompileError == "X Compile error."
MsgWaitInput == "T^ Program waited for input. Please type input in Input box (Scanner)."
MsgTimeLimit == "T^ Time limit exceeded (possible infinite loop)."
MsgNoMain == "X mainClass not found. Use public class Main { ... }"
MsgServerError == "Server error: "
ErrNoClass == "No class found in code."
ErrFs == "EACCES: permission denied"
ErrNoEnt == "ENOENT: no such file or directory"
ErrIsDir == "EISDIR: illegal operation on a directory"
ErrNotDir == "ENOTDIR: not a directory"
ErrSpawn == "spawn EPERM"

(***************************************************************************)
(* Request bodies.                                                         *)
(***************************************************************************)
InputChars == {"a", "\r", "\n"}

Inputs ==
  {Undefined, Num("7")} \cup {Str(s) : s \in Strs(InputChars, MaxInputLen)}

Codes == {Undefined, Str("class A{}"), Str("public class B{}"), Str("int x;")}

FileLists ==
  {<<>>,
   <<[name |-> Str(" p/C.java "), content |-> Str("class C{}\r\n")]>>,
   <<[name |-> Str("notes.txt"), content |-> Str("n")]>>,
   <<[name |-> Str("../E.java"), content |-> Str("int y;")],
     [name |-> Str("D.java"), content |-> Str("int y;")]>>}

MainClasses == {Undefined, Str(" M ")}

Bodies ==
  [code : Codes, files : FileLists, mainClass : MainClasses, input : Inputs]

ClassNameOf == <<"A", "B", "C", "D">>
InputOf == <<"a", "b", "c", "d">>

\* the body of request r when several requests are in flight
ConcBody(r) ==
  [code |-> Str("public class " \o ClassNameOf[((r - 1) % 4) + 1] \o "{}"),
   files |-> <<>>, mainClass |-> Undefined,
   input |-> Str(InputOf[((r - 1) % 4) + 1])]

\* Source blobs given by their structure: a list of class declarations with
\* distinct names, each public or not and final or not, written in the
\* usual order of modifiers.
ClassNames == {"A", "B", "C"}

Decls == [pub : BOOLEAN, fin : BOOLEAN, name : ClassNames]

DeclLists ==
  {d \in UNION {[1..n -> Decls] : n \in 0..MaxDecls} :
     \A i, j \in DOMAIN d : d[i].name = d[j].name => i = j}

RenderDecl(c) ==
  (IF c.pub THEN "public " ELSE "") \o (IF c.fin THEN "final " ELSE "")
  \o "class " \o c.name \o "{}"

RECURSIVE Render(_)
Render(d) ==
  IF d = <<>> THEN ""
  ELSE IF Len(d) = 1 THEN RenderDecl(d[1])
  ELSE RenderDecl(d[1]) \o " " \o Render(Tail(d))

RenderedCode == [d \in DeclLists |-> Render(d)]

DetectBody(d) ==
  [code |-> Str(RenderedCode[d]), files |-> <<>>, mainClass |-> Undefined,
   input |-> Undefined]

\* the source texts the bodies can put into a file, and the class each
\* declares (detectMainClass, tabulated once)
AllCodes ==
  Codes \cup {ConcBody(r).code : r \in Reqs}
  \cup {DetectBody(d).code : d \in DeclLists}

AllContents ==
  AllCodes \cup UNION {{fl[i].content : i \in DOMAIN fl} : fl \in FileLists}

\* normalize(x || ""), tabulated once for the `code` and `content` values
CodeText == [c \in AllContents |-> normalize(OrStr(c, ""))]

SourceTexts == {CodeText[c] : c \in AllContents}

DeclaredClass == [t \in SourceTexts |-> detectMainClass(t)]

(***************************************************************************)
(* index.js:34-52 writeFiles.  The file system is threaded through the     *)
(* loop as a record [dirs, files, err]; err = "" means nothing was thrown. *)
(***************************************************************************)
fsWriteFile(st, p, content) ==
  IF dirname(p) \notin st.dirs THEN [st EXCEPT !.err = ErrNoEnt]
  ELSE IF p \in st.dirs THEN [st EXCEPT !.err = ErrIsDir]
  ELSE [st EXCEPT !.files = {f \in st.files : f.path /= p}
                             \cup {[path |-> p, content |-> content]}]

fsMkdirP(st, d) ==
  IF \E f \in st.files : f.path \in prefixes(d) THEN [st EXCEPT !.err = ErrNotDir]
  ELSE [st EXCEPT !.dirs = st.dirs \cup prefixes(d)]

RECURSIVE writeFileList(_, _, _)
writeFileList(st, workDir, fl) ==
  IF fl = <<>> \/ st.err /= "" THEN st
  ELSE LET f == Head(fl)
           name == trim(String(OrStr(f.name, "")))
           content == CodeText[f.content]
           fullPath == pathJoin(workDir, name)
           made == fsMkdirP(st, dirname(fullPath))
       IN IF ~endsWith(name, ".java") THEN writeFileList(st, workDir, Tail(fl))
          ELSE IF made.err /= "" THEN made
          ELSE writeFileList(fsWriteFile(made, fullPath, content), workDir, Tail(fl))

writeFiles_no_throw(st, workDir, b) ==
  IF Len(b.files) > 0 THEN writeFileList(st, workDir, b.files)
  ELSE LET code == CodeText[b.code]
           main == DeclaredClass[code]
       IN fsWriteFile(st, pathJoin(workDir, (IF main = "" THEN "Main" ELSE main) \o ".java"), code)

writeFiles(st, workDir, b) ==
  IF Len(b.files) > 0 THEN writeFileList(st, workDir, b.files)
  ELSE LET code == CodeText[b.code]
           main == DeclaredClass[code]
       IN IF main = "" THEN [st EXCEPT !.err = ErrNoClass]
          ELSE fsWriteFile(st, pathJoin(workDir, main \o ".java"), code)

resolveMainClass_no_trim(b) ==
  LET mc == String(OrStr(b.mainClass, ""))
  IN IF mc /= "" THEN mc ELSE DeclaredClass[CodeText[b.code]]

\* index.js:147-152
resolveMainClass(b) ==
  LET mc == trim(String(OrStr(b.mainClass, "")))
  IN IF mc /= "" THEN mc ELSE DeclaredClass[CodeText[b.code]]

\* index.js:91-100: the .java files found by walk(workDir)
javaFilesIn(fileSet, workDir) ==
  {f.path : f \in {g \in fileSet : isPrefix(workDir, g.path)
                                    /\ endsWith(g.path[Len(g.path)], ".java")}}

(***************************************************************************)
(* State.                                                                  *)
(***************************************************************************)
VARIABLES
  alive,      \* the service process is running
  nextId,     \* number of identifiers uuid() has handed out
  pending,    \* requests the clients have not sent yet
  body,       \* body of each request
  pc,         \* position of each request's handler
  input,      \* handler local `input` (index.js:138)
  workDir,    \* handler local `workDir` (index.js:141)
  mainClass,  \* handler local `mainClass` (index.js:147)
  dirs,       \* directories of the file system
  files,      \* files of the file system
  javac,      \* compiler process of each request
  java,       \* runtime process of each request
  resp,       \* responses sent for each request
  rmCalls     \* outcomes of the fs.rm calls made for each request's workDir

vars == <<alive, nextId, pending, body, pc, input, workDir, mainClass, dirs,
          files, javac, java, resp, rmCalls>>

NoProc ==
  [st |-> "none", code |-> "none", killedByTimeout |-> FALSE,
   sigkilled |-> FALSE, timer |-> "none", stdout |-> "", stderr |-> "",
   stdin |-> "", stdinEnded |-> FALSE, loops |-> FALSE, cwd |-> <<>>,
   main |-> "", srcs |-> {}]

NoResp == [count |-> 0, status |-> 0, output |-> "", dirAtSend |-> FALSE]

(***************************************************************************)
(* Initial states: nothing received, an empty temporary directory.         *)
(***************************************************************************)
InitCommon ==
  /\ alive = TRUE
  /\ nextId = 0
  /\ pc = [r \in Reqs |-> "idle"]
  /\ input = [r \in Reqs |-> ""]
  /\ workDir = [r \in Reqs |-> <<>>]
  /\ mainClass = [r \in Reqs |-> ""]
  /\ dirs = prefixes(tmpdir)
  /\ files = {}
  /\ javac = [r \in Reqs |-> NoProc]
  /\ java = [r \in Reqs |-> NoProc]
  /\ resp = [r \in Reqs |-> NoResp]
  /\ rmCalls = [r \in Reqs |-> <<>>]

\* one request, any body
Init ==
  /\ InitCommon
  /\ pending = {1}
  /\ \E b \in Bodies : body = [r \in Reqs |-> IF r = 1 THEN b ELSE ConcBody(r)]

\* two requests in flight together
InitConc ==
  /\ InitCommon
  /\ pending \in {S \in SUBSET Reqs : Cardinality(S) = 2}
  /\ body = [r \in Reqs |-> ConcBody(r)]

(***************************************************************************)
(* index.js:136-162, the POST /run handler.  One action per stretch of the *)
(* handler between two awaits.                                             *)
(***************************************************************************)
\* res.json / res.status(500).json: the response as the client receives it,
\* with whether the request's workDir exists at that moment
sent(r, status, output) ==
  [resp EXCEPT ![r] = [count |-> @.count + 1, status |-> status,
                       output |-> output, dirAtSend |-> workDir[r] \in dirs]]

\* index.js:157-158: the catch block
Catch(r, message) ==
  /\ resp' = sent(r, 500, MsgServerError \o message)
  /\ pc' = [pc EXCEPT ![r] = "finally"]

Return_before_try(r, output) ==
  /\ resp' = sent(r, 200, output)
  /\ pc' = [pc EXCEPT ![r] = IF output = MsgNoMain THEN "done" ELSE "finally"]

\* a value returned by runJavaLocal or the early return of line 153,
\* answered with res.json (index.js:153, 156)
Return(r, output) ==
  /\ resp' = sent(r, 200, output)
  /\ pc' = [pc EXCEPT ![r] = "finally"]

\* index.js:137-141, up to the first await
Receive(r) ==
  /\ alive /\ r \in pending /\ pc[r] = "idle"
  /\ pending' = pending \ {r}
  /\ input' = [input EXCEPT ![r] = normalize(OrStr(body[r].input, ""))]
  /\ nextId' = nextId + 1
  /\ workDir' = [workDir EXCEPT ![r] = workDirOf(nextId + 1)]
  /\ pc' = [pc EXCEPT ![r] = "mkdir"]
  /\ UNCHANGED <<alive, body, mainClass, dirs, files, javac, java, resp, rmCalls>>

\* index.js:144; the file system may refuse
Mkdir(r) ==
  /\ alive /\ pc[r] = "mkdir"
  /\ \E ok \in BOOLEAN :
       LET st == fsMkdirP([dirs |-> dirs, files |-> files, err |-> ""], workDir[r])
       IN IF ok /\ st.err = ""
          THEN /\ dirs' = st.dirs
               /\ pc' = [pc EXCEPT ![r] = "writeFiles"]
               /\ UNCHANGED resp
          ELSE /\ Catch(r, IF ok THEN st.err ELSE ErrFs)
               /\ UNCHANGED dirs
  /\ UNCHANGED <<alive, nextId, pending, body, input, workDir, mainClass, files,
                 javac, java, rmCalls>>

\* index.js:145-153
WriteFiles(r) ==
  /\ alive /\ pc[r] = "writeFiles"
  /\ LET st == writeFiles([dirs |-> dirs, files |-> files, err |-> ""],
                          workDir[r], body[r])
         mc == resolveMainClass(body[r])
     IN /\ dirs' = st.dirs
        /\ files' = st.files
        /\ IF st.err /= "" THEN Catch(r, st.err) /\ UNCHANGED mainClass
           ELSE IF mc = "" THEN Return(r, MsgNoMain) /\ UNCHANGED mainClass
           ELSE /\ mainClass' = [mainClass EXCEPT ![r] = mc]
                /\ pc' = [pc EXCEPT ![r] = "walk"]
                /\ UNCHANGED resp
  /\ UNCHANGED <<alive, nextId, pending, body, input, workDir, javac, java, rmCalls>>

(***************************************************************************)
(* index.js:55-87 runProcess.  spawn() either starts the child, throws, or *)
(* reports the failure later with an 'error' event on the child.           *)
(***************************************************************************)
SpawnOutcomes == {"ok", "throw", "error"}

\* the child as runProcess leaves it at its return (lines 57-66, 81-85);
\* inp is the `input` option, a JavaScript value
runProcess(cwd, inp, main, srcs, loops) ==
  [NoProc EXCEPT !.st = "running", !.timer = "armed",
                 !.stdin = IF inp.t = "string" /\ Len(inp.v) > 0 THEN inp.v ELSE "",
                 !.stdinEnded = TRUE, !.loops = loops, !.cwd = cwd,
                 !.main = main, !.srcs = srcs]

\* what a child can print on one stream: the name of a class found in its
\* working directory, then what it reads from its stdin
Scripts(p) ==
  {n \o p.stdin :
     n \in {DeclaredClass[f.content] :
              f \in {g \in files : isPrefix(p.cwd, g.path)}} \ {""}}

\* the chunks a 'data' event can deliver on a stream that has delivered x
Chunks(p, x) ==
  LET room == MaxPrinted - Len(p.stdout) - Len(p.stderr)
  IN UNION {{SubSeq(s, Len(x) + 1, k) : k \in (Len(x) + 1)..Min(Len(x) + room, Len(s))} :
              s \in {t \in Scripts(p) : Len(t) > Len(x) /\ SubSeq(t, 1, Len(x)) = x}}

\* index.js:68: child.stdout.on("data")
onStdout(p, d) == [p EXCEPT !.stdout = @ \o d]

\* index.js:69: child.stderr.on("data")
onStderr(p, d) == [p EXCEPT !.stderr = @ \o d]

\* the child exits by itself with an exit code
exited(p, code) == [p EXCEPT !.st = "exited", !.code = code]

onTimeout_no_flag(p) ==
  IF p.st = "running"
  THEN [p EXCEPT !.timer = "fired", !.st = "exited", !.code = "null",
                 !.sigkilled = TRUE]
  ELSE [p EXCEPT !.timer = "fired"]

\* index.js:63-66: the timer callback; kill() has no effect on a child that
\* has exited
onTimeout(p) ==
  IF p.st = "running"
  THEN [p EXCEPT !.killedByTimeout = TRUE, !.timer = "fired", !.st = "exited",
                 !.code = "null", !.sigkilled = TRUE]
  ELSE [p EXCEPT !.killedByTimeout = TRUE, !.timer = "fired"]

\* index.js:71-79: the 'close' handler
onClose(p) ==
  [p EXCEPT !.st = "closed", !.timer = IF @ = "armed" THEN "cleared" ELSE @]

\* the compiler's child once the run phase starts: its captured output is
\* not read again after index.js:111
released(p) == [p EXCEPT !.stdout = "", !.stderr = ""]

\* the resolved value of runProcess
result(p) ==
  [code |-> p.code, killedByTimeout |-> p.killedByTimeout,
   stdout |-> p.stdout, stderr |-> p.stderr]

(***************************************************************************)
(* index.js:89-133 runJavaLocal.                                           *)
(***************************************************************************)
\* index.js:120: the `input` option of the run phase
runInput(inp) == Str(normalize(Str(inp)) \o "\n")

compileVerdict_no_code_check(c) ==
  IF c.killedByTimeout THEN MsgCompileTimeout ELSE ""

\* index.js:109-111: the value returned after the compile phase, "" when
\* the pipeline goes on to the run phase
compileVerdict(c) ==
  LET compileOut == truncate(c.stdout \o c.stderr)
  IN IF c.killedByTimeout THEN MsgCompileTimeout
     ELSE IF c.code /= "0"
          THEN (IF compileOut /= "" THEN compileOut ELSE MsgCompileError)
          ELSE ""

\* index.js:126-129
runTimeoutMessage_nonempty(inp) ==
  IF inp = "" THEN MsgWaitInput ELSE MsgTimeLimit

runTimeoutMessage(inp) ==
  IF trim(inp) = "" THEN MsgWaitInput ELSE MsgTimeLimit

\* index.js:124-132: the value returned after the run phase
runVerdict(rr, inp) ==
  IF rr.killedByTimeout THEN runTimeoutMessage(inp)
  ELSE truncate(rr.stdout \o rr.stderr)

\* index.js:91-107: walk, then spawn the compiler
Walk(r) ==
  /\ alive /\ pc[r] = "walk"
  /\ LET javaFiles == javaFilesIn(files, workDir[r])
     IN IF workDir[r] \notin dirs
        THEN Catch(r, ErrNoEnt) /\ UNCHANGED <<alive, javac>>
        ELSE IF javaFiles = {}
        THEN Return(r, MsgNoJava) /\ UNCHANGED <<alive, javac>>
        ELSE \E o \in SpawnOutcomes, l \in BOOLEAN :
               \/ /\ o = "ok"
                  /\ javac' = [javac EXCEPT ![r] =
                       runProcess(workDir[r], Undefined, "", javaFiles, l)]
                  /\ pc' = [pc EXCEPT ![r] = "compile"]
                  /\ UNCHANGED <<alive, resp>>
               \/ /\ o = "throw"
                  /\ Catch(r, ErrSpawn)
                  /\ UNCHANGED <<alive, javac>>
               \/ /\ o = "error"
                  /\ alive' = FALSE
                  /\ UNCHANGED <<javac, pc, resp>>
  /\ UNCHANGED <<nextId, pending, body, input, workDir, mainClass, dirs, files,
                 java, rmCalls>>

\* a 'data' event of the compiler's stdout or stderr
JavacData(r) ==
  /\ alive /\ javac[r].st = "running"
  /\ \/ \E d \in Chunks(javac[r], javac[r].stdout) :
          javac' = [javac EXCEPT ![r] = onStdout(@, d)]
     \/ \E d \in Chunks(javac[r], javac[r].stderr) :
          javac' = [javac EXCEPT ![r] = onStderr(@, d)]
  /\ UNCHANGED <<alive, nextId, pending, body, pc, input, workDir, mainClass,
                 dirs, files, java, resp, rmCalls>>

\* the compiler exits by itself, or is ended by a signal that is not the
\* timeout kill (exit code null)
JavacExit(r) ==
  /\ alive /\ javac[r].st = "running" /\ ~javac[r].loops
  /\ \E code \in {"0", "1", "null"} : javac' = [javac EXCEPT ![r] = exited(@, code)]
  /\ UNCHANGED <<alive, nextId, pending, body, pc, input, workDir, mainClass,
                 dirs, files, java, resp, rmCalls>>

\* the compile timer expires
JavacTimeout(r) ==
  /\ alive /\ javac[r].timer = "armed"
  /\ javac' = [javac EXCEPT ![r] = onTimeout(@)]
  /\ UNCHANGED <<alive, nextId, pending, body, pc, input, workDir, mainClass,
                 dirs, files, java, resp, rmCalls>>

\* the compiler's 'close' event, and index.js:109-122 up to the next await
CompileClose(r) ==
  /\ alive /\ pc[r] = "compile" /\ javac[r].st = "exited"
  /\ LET v == compileVerdict(result(javac[r]))
     IN IF v /= ""
        THEN /\ javac' = [javac EXCEPT ![r] = onClose(@)]
             /\ Return(r, v)
             /\ UNCHANGED <<alive, java>>
        ELSE /\ javac' = [javac EXCEPT ![r] = released(onClose(@))]
             /\ \E o \in SpawnOutcomes, l \in BOOLEAN :
                  \/ /\ o = "ok"
                     /\ java' = [java EXCEPT ![r] =
                          runProcess(workDir[r], runInput(input[r]), mainClass[r], {}, l)]
                     /\ pc' = [pc EXCEPT ![r] = "run"]
                     /\ UNCHANGED <<alive, resp>>
                  \/ /\ o = "throw"
                     /\ Catch(r, ErrSpawn)
                     /\ UNCHANGED <<alive, java>>
                  \/ /\ o = "error"
                     /\ alive' = FALSE
                     /\ UNCHANGED <<java, pc, resp>>
  /\ UNCHANGED <<nextId, pending, body, input, workDir, mainClass, dirs, files,
                 rmCalls>>

\* a 'data' event of the program's stdout or stderr
JavaData(r) ==
  /\ alive /\ java[r].st = "running"
  /\ \/ \E d \in Chunks(java[r], java[r].stdout) :
          java' = [java EXCEPT ![r] = onStdout(@, d)]
     \/ \E d \in Chunks(java[r], java[r].stderr) :
          java' = [java EXCEPT ![r] = onStderr(@, d)]
  /\ UNCHANGED <<alive, nextId, pending, body, pc, input, workDir, mainClass,
                 dirs, files, javac, resp, rmCalls>>

\* the program exits by itself; when it exits before it has read what was
\* written to its stdin, the write fails and child.stdin emits 'error',
\* for which index.js registers no listener
JavaExit(r) ==
  /\ alive /\ java[r].st = "running" /\ ~java[r].loops
  /\ \E code \in {"0", "1"}, epipe \in BOOLEAN :
       /\ java' = [java EXCEPT ![r] = exited(@, code)]
       /\ alive' = ~(epipe /\ java[r].stdin /= "")
  /\ UNCHANGED <<nextId, pending, body, pc, input, workDir, mainClass,
                 dirs, files, javac, resp, rmCalls>>

\* the run timer expires
JavaTimeout(r) ==
  /\ alive /\ java[r].timer = "armed"
  /\ java' = [java EXCEPT ![r] = onTimeout(@)]
  /\ UNCHANGED <<alive, nextId, pending, body, pc, input, workDir, mainClass,
                 dirs, files, javac, resp, rmCalls>>

\* the program's 'close' event, and index.js:124-132, 156
RunClose(r) ==
  /\ alive /\ pc[r] = "run" /\ java[r].st = "exited"
  /\ java' = [java EXCEPT ![r] = onClose(@)]
  /\ Return(r, runVerdict(result(java[r]), input[r]))
  /\ UNCHANGED <<alive, nextId, pending, body, input, workDir, mainClass, dirs,
                 files, javac, rmCalls>>

Cleanup_propagates(r) ==
  /\ alive /\ pc[r] = "finally"
  /\ \E ok \in BOOLEAN :
       /\ rmCalls' = [rmCalls EXCEPT ![r] = Append(@, ok)]
       /\ IF ok
          THEN /\ dirs' = {d \in dirs : ~isPrefix(workDir[r], d)}
               /\ files' = {f \in files : ~isPrefix(workDir[r], f.path)}
               /\ UNCHANGED resp
          ELSE /\ resp' = sent(r, 500, MsgServerError \o ErrFs)
               /\ UNCHANGED <<dirs, files>>
  /\ pc' = [pc EXCEPT ![r] = "done"]
  /\ UNCHANGED <<alive, nextId, pending, body, input, workDir, mainClass, javac,
                 java>>

\* index.js:159-161: fs.rm(workDir, {recursive, force}); a failure is swallowed
Cleanup(r) ==
  /\ alive /\ pc[r] = "finally"
  /\ \E ok \in BOOLEAN :
       /\ rmCalls' = [rmCalls EXCEPT ![r] = Append(@, ok)]
       /\ IF ok
          THEN /\ dirs' = {d \in dirs : ~isPrefix(workDir[r], d)}
               /\ files' = {f \in files : ~isPrefix(workDir[r], f.path)}
          ELSE UNCHANGED <<dirs, files>>
  /\ pc' = [pc EXCEPT ![r] = "done"]
  /\ UNCHANGED <<alive, nextId, pending, body, input, workDir, mainClass, javac,
                 java, resp>>

Next ==
  \E r \in Reqs :
    \/ Receive(r)
    \/ Mkdir(r)
    \/ WriteFiles(r)
    \/ Walk(r)
    \/ JavacData(r)
    \/ JavacExit(r)
    \/ JavacTimeout(r)
    \/ CompileClose(r)
    \/ JavaData(r)
    \/ JavaExit(r)
    \/ JavaTimeout(r)
    \/ RunClose(r)
    \/ Cleanup(r)

\* one request at a time, any body
Spec == Init /\ [][Next]_vars

\* two requests in flight together
SpecConc == InitConc /\ [][Next]_vars

\* one request that compiles and runs
InitLive ==
  /\ InitCommon
  /\ pending = {1}
  /\ body = [r \in Reqs |-> ConcBody(r)]

\* The event loop runs every callback that is ready: the continuations of
\* the awaited file-system calls, an armed timer, and the 'close' event of a
\* child that has exited.  Nothing obliges a client to send a request or a
\* child to print or to exit.
Ready(r) ==
  \/ Mkdir(r) \/ WriteFiles(r) \/ Walk(r)
  \/ JavacTimeout(r) \/ CompileClose(r)
  \/ JavaTimeout(r) \/ RunClose(r)
  \/ Cleanup(r)

Fairness == \A r \in Reqs : WF_vars(Ready(r))

SpecLive == InitLive /\ [][Next]_vars /\ Fairness

\* one request whose body is a single source blob of known structure
InitDetect ==
  /\ InitCommon
  /\ pending = {1}
  /\ \E d \in DeclLists :
       body = [r \in Reqs |-> IF r = 1 THEN DetectBody(d) ELSE ConcBody(r)]

SpecDetect == InitDetect /\ [][Next]_vars

(***************************************************************************)
(* Properties.                                                             *)
(***************************************************************************)
Finished(r) == pc[r] \in {"finally", "done"}

Started(p) == p.st /= "none"

Alive(p) == p.st \in {"running", "exited"}

\* what the handler's `input` is for the request as the client sent it
RequestInput(r) == normalize(OrStr(body[r].input, ""))

\* C1: on every exit path of the handler the removal of the request's
\* WorkArea is attempted exactly once, never before the handler's exit and
\* never while a process started for the request has not closed; after a
\* successful removal nothing of the WorkArea exists when the handler is done.
C1_CleanupOnceAfterClose ==
  \A r \in Reqs :
    /\ Len(rmCalls[r]) = (IF pc[r] = "done" THEN 1 ELSE 0)
    /\ Len(rmCalls[r]) > 0 => ~Alive(javac[r]) /\ ~Alive(java[r])
    /\ pc[r] = "done" /\ rmCalls[r] = <<TRUE>> =>
         /\ \A d \in dirs : ~isPrefix(workDir[r], d)
         /\ \A f \in files : ~isPrefix(workDir[r], f.path)

\* C1 witness: a request whose program was killed by the timeout is done and
\* its WorkArea was removed.
C1_Witness ==
  \E r \in Reqs :
    /\ pc[r] = "done" /\ rmCalls[r] = <<TRUE>>
    /\ java[r].st = "closed" /\ java[r].sigkilled
    /\ resp[r].dirAtSend

\* C2: when the response is sent the request's WorkArea has already been
\* deleted.
C2_DeletedBeforeResponse ==
  \A r \in Reqs : resp[r].count > 0 => ~resp[r].dirAtSend

\* C3: per request the compiler and the runtime are each started at most
\* once, the runtime only after the compiler has closed with exit code 0
\* and without the timeout kill, and the two are never alive together.
C3_SequentialNoRetry ==
  /\ [](\A r \in Reqs :
          /\ Started(java[r]) =>
               /\ javac[r].st = "closed" /\ javac[r].code = "0"
               /\ ~javac[r].killedByTimeout /\ ~javac[r].sigkilled
          /\ ~(Alive(javac[r]) /\ Alive(java[r])))
  /\ [][\A r \in Reqs :
          /\ Started(javac[r]) => javac'[r].st \in {javac[r].st, "exited", "closed"}
          /\ Started(java[r]) => java'[r].st \in {java[r].st, "exited", "closed"}
          /\ javac'[r].st = "running" => java'[r].st = "none"]_vars

\* C3 witness: the runtime is running after a compile that exited with 0.
C3_Witness ==
  \E r \in Reqs :
    java[r].st = "running" /\ javac[r].st = "closed" /\ javac[r].code = "0"

\* C4: a closed process is reported as timed-out exactly when the timeout
\* kill terminated it; a process that exited by itself is never reported as
\* timed-out.
C4_TimedOutOnlyWhenKilled ==
  \A r \in Reqs :
    /\ javac[r].st = "closed" => (javac[r].killedByTimeout <=> javac[r].sigkilled)
    /\ java[r].st = "closed" => (java[r].killedByTimeout <=> java[r].sigkilled)

\* C5: no outcome of an external process (a spawn failure reported by the
\* child's 'error' event, a failed write to the child's stdin) stops the
\* service process.
C5_ServiceStaysAlive == alive

\* C6: the program's stdin receives the CRLF-normalized request input and
\* one newline when the request input is non-empty, nothing when the request
\* has no input, and is then closed.
C6_StdinProtocol ==
  \A r \in Reqs :
    Started(java[r]) =>
      /\ java[r].stdinEnded
      /\ java[r].stdin =
           (IF RequestInput(r) = "" THEN "" ELSE RequestInput(r) \o "\n")

\* the request ended with the value runJavaLocal returned after the run phase
RunAnswered(r) == Finished(r) /\ java[r].st = "closed"

\* C7 as stated: after a run killed by the timeout the result is the
\* waiting-for-input message when the request's input is empty and the
\* infinite-loop message for every non-empty input.
C7_EmptyVersusNonEmpty ==
  \A r \in Reqs :
    RunAnswered(r) /\ java[r].sigkilled =>
      resp[r].output = (IF RequestInput(r) = "" THEN MsgWaitInput ELSE MsgTimeLimit)

\* C7 amended: after a run killed by the timeout the result is the
\* waiting-for-input message when the request's input is empty or consists
\* of white space only, and the infinite-loop message when it has a
\* character that is not white space; it is sent once, with status 200, it
\* is never the captured output, and the runtime is not started again.
C7_BlankVersusNonBlank ==
  /\ [](\A r \in Reqs :
          RunAnswered(r) /\ java[r].sigkilled =>
            /\ resp[r].count = 1 /\ resp[r].status = 200
            /\ resp[r].output =
                 (IF \A i \in 1..Len(RequestInput(r)) :
                        Char(RequestInput(r), i) \in WhiteSpace
                  THEN MsgWaitInput ELSE MsgTimeLimit))
  /\ [][\A r \in Reqs : java[r].sigkilled => java'[r].st \in {"exited", "closed"}]_vars

\* C7 witness: a run killed by the timeout, answered, whose input is not
\* empty and all white space, and whose program had printed something.
C7_Witness ==
  \E r \in Reqs :
    /\ RunAnswered(r) /\ java[r].sigkilled
    /\ RequestInput(r) = "\n" /\ java[r].stdout /= ""

\* C8 as stated: a program that loops forever, run with no input, ends in
\* the infinite-loop message.
C8_LoopNoInputIsInfiniteLoop ==
  \A r \in Reqs :
    RunAnswered(r) /\ java[r].loops /\ RequestInput(r) = "" =>
      resp[r].output = MsgTimeLimit

\* C8 amended: a program that loops forever, run with no input, ends in a
\* run-timeout result, and it is the waiting-for-input message.
C8_LoopNoInputIsWaitInput ==
  \A r \in Reqs :
    RunAnswered(r) /\ java[r].loops /\ RequestInput(r) = "" =>
      /\ java[r].sigkilled
      /\ resp[r].status = 200 /\ resp[r].output = MsgWaitInput

\* C8 witness: a looping program without input has been answered.
C8_Witness ==
  \E r \in Reqs :
    /\ RunAnswered(r) /\ java[r].loops /\ body[r].input = Undefined
    /\ resp[r].output = MsgWaitInput

\* the cap the claim describes, applied to a combined output
Capped(s) ==
  IF Len(s) <= MAX_OUT THEN s ELSE SubSeq(s, 1, MAX_OUT) \o TruncationMarker

\* C9: the output of a normal exit is the program's stdout followed by its
\* stderr, unchanged up to MAX_OUT characters and otherwise cut to MAX_OUT
\* characters plus the marker; the output of a compile error is the
\* compiler's combined output capped the same way (the fixed message when
\* there is none); neither is longer than MAX_OUT plus the marker.
C9_OutputCapped ==
  \A r \in Reqs :
    /\ RunAnswered(r) /\ ~java[r].killedByTimeout =>
         /\ resp[r].output = Capped(java[r].stdout \o java[r].stderr)
         /\ Len(resp[r].output) <= MAX_OUT + Len(TruncationMarker)
    /\ Finished(r) /\ javac[r].st = "closed" /\ ~javac[r].killedByTimeout
         /\ javac[r].code /= "0" =>
         /\ resp[r].output =
              (IF javac[r].stdout \o javac[r].stderr = "" THEN MsgCompileError
               ELSE Capped(javac[r].stdout \o javac[r].stderr))
         /\ Len(resp[r].output) <= MAX_OUT + Len(TruncationMarker)

\* C9 witness: a normal exit whose combined output is exactly MAX_OUT long.
C9_Witness ==
  \E r \in Reqs :
    /\ RunAnswered(r) /\ ~java[r].killedByTimeout
    /\ Len(java[r].stdout \o java[r].stderr) = MAX_OUT
    /\ resp[r].output = java[r].stdout \o java[r].stderr

IsPrefixOf(x, s) == Len(x) <= Len(s) /\ SubSeq(s, 1, Len(x)) = x

\* C10: requests in flight together have WorkAreas that do not overlap; a
\* request's program is fed that request's input; what its processes
\* print, and so what its response carries, comes from its own source and
\* input; and its WorkArea with its source stays in place until its own
\* cleanup, whatever the other requests do.
C10_Isolation ==
  \A r \in Reqs :
    LET ownCode == CodeText[body[r].code]
        ownClass == DeclaredClass[ownCode]
        ownPath == Append(workDir[r], ownClass \o ".java")
        ownScript == ownClass \o RequestInput(r) \o "\n"
    IN
    /\ \A q \in Reqs \ {r} :
         pc[r] /= "idle" /\ pc[q] /= "idle" =>
           ~isPrefix(workDir[r], workDir[q]) /\ ~isPrefix(workDir[q], workDir[r])
    /\ Started(java[r]) => java[r].stdin = RequestInput(r) \o "\n"
    /\ IsPrefixOf(javac[r].stdout, ownScript) /\ IsPrefixOf(javac[r].stderr, ownScript)
    /\ IsPrefixOf(java[r].stdout, ownScript) /\ IsPrefixOf(java[r].stderr, ownScript)
    /\ RunAnswered(r) /\ ~java[r].killedByTimeout =>
         resp[r].output = truncate(java[r].stdout \o java[r].stderr)
    /\ pc[r] \in {"walk", "compile", "run"} \/ (pc[r] = "finally" /\ Started(javac[r])) =>
         /\ workDir[r] \in dirs
         /\ [path |-> ownPath, content |-> ownCode] \in files
         /\ javaFilesIn(files, workDir[r]) = {ownPath}

\* C10 witness: one request is done and its WorkArea removed while the
\* program of another, received before that removal, is running and has
\* printed.
C10_Witness ==
  \E r, q \in Reqs :
    /\ r /= q
    /\ pc[r] = "done" /\ rmCalls[r] = <<TRUE>> /\ java[r].st = "closed"
    /\ java[q].st = "running" /\ java[q].stdout /= "" /\ workDir[q] \in dirs

\* the request is a file list (index.js:35)
FileListMode(b) == Len(b.files) > 0

\* the request supplies source files or a source blob, and no text it
\* supplies declares a class
DeclaresNoClass(b) ==
  IF FileListMode(b)
  THEN /\ \E i \in DOMAIN b.files : endsWith(trim(String(OrStr(b.files[i].name, ""))), ".java")
       /\ \A i \in DOMAIN b.files :
            DeclaredClass[CodeText[b.files[i].content]] = ""
  ELSE DeclaredClass[CodeText[b.code]] = ""

NoProcess(r) == ~Started(javac[r]) /\ ~Started(java[r])

\* the file system refused to create the WorkArea
MkdirRefused(r) == Finished(r) /\ resp[r].output = MsgServerError \o ErrFs

WorkAreaGone(r) ==
  /\ \A d \in dirs : ~isPrefix(workDir[r], d)
  /\ \A f \in files : ~isPrefix(workDir[r], f.path)

\* C11 as stated: a request whose sources declare no class, file list or
\* single blob, ends in a no-entry-point error, starts neither the compiler
\* nor the runtime, and leaves no WorkArea behind once it is removed.
C11_NoClassNoEntryPoint ==
  \A r \in Reqs :
    DeclaresNoClass(body[r]) /\ ~MkdirRefused(r) =>
      /\ NoProcess(r)
      /\ Finished(r) =>
           resp[r].output \in {MsgNoMain, MsgServerError \o ErrNoClass}
      /\ pc[r] = "done" /\ rmCalls[r] = <<TRUE>> => WorkAreaGone(r)

\* C11 amended: a single-blob request whose code declares no class, with or
\* without an explicit mainClass, is answered with status 500 and "Server
\* error: No class found in code.", starts neither the compiler nor the
\* runtime, and its WorkArea is gone after the request when the removal
\* succeeded.
C11_BlobNoClass ==
  \A r \in Reqs :
    ~FileListMode(body[r]) /\ DeclaresNoClass(body[r]) /\ ~MkdirRefused(r) =>
      /\ NoProcess(r)
      /\ Finished(r) =>
           /\ resp[r].count = 1 /\ resp[r].status = 500
           /\ resp[r].output = MsgServerError \o ErrNoClass
      /\ pc[r] = "done" /\ rmCalls[r] = <<TRUE>> => WorkAreaGone(r)

\* C11 witness: a blob without a class and with an explicit mainClass has
\* been answered and its WorkArea, which existed, has been removed.
C11_Witness ==
  \E r \in Reqs :
    /\ ~FileListMode(body[r]) /\ body[r].code = Str("int x;")
    /\ body[r].mainClass /= Undefined
    /\ pc[r] = "done" /\ resp[r].dirAtSend /\ rmCalls[r] = <<TRUE>>

\* C12: every request that the service has received is answered.
C12_EveryRequestAnswered ==
  \A r \in Reqs : [](pc[r] /= "idle" => <>(resp[r].count = 1))

\* C13: every file of the file system lies inside the WorkArea of a request
\* that has been received, so the removal of the WorkAreas leaves no file.
C13_FilesInsideWorkArea ==
  \A f \in files :
    \E r \in Reqs : workDir[r] /= <<>> /\ isPrefix(workDir[r], f.path)

\* C14: every request that the service has received reaches its response and
\* the end of its cleanup step.
C14_EveryRequestCompletes ==
  \A r \in Reqs : (pc[r] /= "idle") ~> (resp[r].count = 1 /\ pc[r] = "done")

\* the compiler's stdout followed by its stderr, capped, or the fixed
\* compile-error message when the compiler printed nothing
CompileErrorText(r) ==
  IF javac[r].stdout \o javac[r].stderr = "" THEN MsgCompileError
  ELSE Capped(javac[r].stdout \o javac[r].stderr)

\* C15: once the compiler has closed, if the timeout kill ended it the result
\* is the compile-timeout message; otherwise, if its exit code is not 0 (null
\* included), the result is its capped stdout followed by its stderr, never
\* the empty string, and the runtime is not started.
C15_CompileOutcomes ==
  \A r \in Reqs :
    javac[r].st = "closed" =>
      IF javac[r].sigkilled
      THEN resp[r].count = 1 /\ resp[r].output = MsgCompileTimeout
      ELSE javac[r].code /= "0" =>
             /\ resp[r].count = 1 /\ resp[r].status = 200
             /\ resp[r].output = CompileErrorText(r)
             /\ resp[r].output /= ""
             /\ java[r].st = "none"

\* the files of request r's WorkArea whose name carries the source extension
SourceFiles(r) ==
  {f \in files :
     /\ isPrefix(workDir[r], f.path)
     /\ LET n == f.path[Len(f.path)]
        IN Len(n) >= 5 /\ SubSeq(n, Len(n) - 4, Len(n)) = ".java"}

\* the handler of r has answered without an error, so materialization has
\* succeeded; the WorkArea is still there and holds no source file
ZeroSources(r) ==
  /\ pc[r] = "finally" /\ resp[r].status = 200
  /\ workDir[r] \in dirs /\ SourceFiles(r) = {}

\* C16 as stated: a request whose WorkArea holds no source file after
\* materialization ends with the no-sources result, and neither the compiler
\* nor the runtime is spawned.
C16_ZeroSourcesIsNoSources ==
  \A r \in Reqs :
    ZeroSources(r) => resp[r].output = MsgNoJava /\ NoProcess(r)

\* C16 amended: such a request ends with the 'mainClass not found' result
\* when no entry-point name can be resolved from its body, and with the
\* no-sources result otherwise; no process is spawned in either case.
C16_ZeroSourcesNoMainFirst ==
  \A r \in Reqs :
    ZeroSources(r) =>
      /\ resp[r].output =
           (IF resolveMainClass(body[r]) = "" THEN MsgNoMain ELSE MsgNoJava)
      /\ NoProcess(r)

\* C16 witness: a file list whose only file was skipped for its extension
\* has been answered with the no-sources result.
C16_Witness ==
  \E r \in Reqs :
    /\ ZeroSources(r) /\ FileListMode(body[r])
    /\ \E i \in DOMAIN body[r].files : body[r].files[i].name = Str("notes.txt")
    /\ resp[r].output = MsgNoJava /\ NoProcess(r)

\* the entry-point name the claim describes: the trimmed explicit mainClass
\* when that is non-empty, otherwise the name derived from `code`
EntryPoint(b) ==
  LET explicit == IF b.mainClass.t = "string" THEN trim(b.mainClass.v) ELSE ""
  IN IF explicit /= "" THEN explicit ELSE DeclaredClass[CodeText[b.code]]

\* C17 as stated: a process is spawned only for a request with a non-empty
\* entry-point name, the runtime is given that name, and a request without
\* one, once its WorkArea exists, ends with the 'mainClass not found' result
\* and no process.
C17_EntryPointOrNoMain ==
  \A r \in Reqs :
    /\ ~NoProcess(r) => EntryPoint(body[r]) /= ""
    /\ Started(java[r]) => java[r].main = EntryPoint(body[r])
    /\ Finished(r) /\ resp[r].dirAtSend /\ EntryPoint(body[r]) = "" =>
         resp[r].output = MsgNoMain /\ resp[r].status = 200 /\ NoProcess(r)

\* C17 amended: the same, except that a single-blob request without an
\* entry-point name ends with the error 'No class found in code.'; only a
\* file-list request ends with the 'mainClass not found' result.
C17_EntryPointOrRejected ==
  \A r \in Reqs :
    /\ ~NoProcess(r) => EntryPoint(body[r]) /= ""
    /\ Started(java[r]) => java[r].main = EntryPoint(body[r])
    /\ Finished(r) /\ resp[r].dirAtSend /\ EntryPoint(body[r]) = "" =>
         /\ NoProcess(r)
         /\ IF FileListMode(body[r])
            THEN resp[r].output = MsgNoMain /\ resp[r].status = 200
            ELSE resp[r].output = MsgServerError \o ErrNoClass /\ resp[r].status = 500

\* C17 witness: the runtime has been started with the trimmed explicit
\* mainClass of the request.
C17_Witness ==
  \E r \in Reqs :
    /\ body[r].mainClass = Str(" M ")
    /\ Started(java[r]) /\ java[r].main = "M"

\* the declarations of the blob of request r
DeclsOf(r) == CHOOSE d \in DeclLists : body[r].code = Str(RenderedCode[d])

\* the name the claim describes: that of the first public declaration when
\* there is one, otherwise that of the first declaration, "" when the blob
\* declares nothing
FirstPublicOrFirst(d) ==
  LET pubs == {i \in DOMAIN d : d[i].pub}
  IN IF pubs /= {} THEN d[CHOOSE i \in pubs : \A j \in pubs : i <= j].name
     ELSE IF d /= <<>> THEN d[1].name
     ELSE ""

\* C18: the name derived for a single blob is that of its first public
\* declaration if it has one, otherwise that of its first declaration; the
\* blob is written to the file of that name, and the request is rejected
\* with 'No class found in code.' exactly when the blob declares nothing.
C18_DerivedName ==
  \A r \in Reqs :
    r = 1 /\ resp[r].dirAtSend =>
      LET expected == FirstPublicOrFirst(DeclsOf(r))
      IN /\ resp[r].output = MsgServerError \o ErrNoClass <=> expected = ""
         /\ pc[r] = "finally" /\ expected /= "" =>
              \E f \in files :
                /\ f.path = Append(workDir[r], expected \o ".java")
                /\ f.content = RenderedCode[DeclsOf(r)]

\* C19: a step in which the removal of a request's WorkArea fails sends no
\* response, changes no response already sent, leaves the service running
\* and ends the handler, exactly as a step in which the removal succeeds.
C19_CleanupFailureSwallowed ==
  [][\A r \in Reqs :
       rmCalls'[r] /= rmCalls[r] =>
         /\ resp' = resp
         /\ alive' = alive
         /\ pc[r] = "finally" /\ pc'[r] = "done"
         /\ resp[r].count = 1]_vars

\* C19 witness: the removal of a WorkArea has failed, the WorkArea is still
\* there, and the request ended with the one response it had before.
C19_Witness ==
  \E r \in Reqs :
    /\ rmCalls[r] = <<FALSE>> /\ workDir[r] \in dirs
    /\ pc[r] = "done" /\ resp[r].count = 1 /\ alive

=============================================================================
